---------------------------- MODULE Spec2Model ----------------------------
(***************************************************************************)
(* Model of the loop3 traffic-exchange protocol engine                     *)
(* (ziti-fabric-test/subcmd/loop3/protocol.go).                            *)
(*                                                                         *)
(* One engine is the goroutines started by protocol.run: the block         *)
(* generator, txer, rxer and verifier, plus run itself, sharing one        *)
(* connection (p.peer).  Every variable is a function over Engines.        *)
(*   Spec      engine 1 against an arbitrary remote end (the Remote*       *)
(*             actions write frames of any content, or close the stream).  *)
(*   SpecPair  engines 1 and 2 connected by a reliable ordered stream.     *)
(*   SpecFrame the framing codec alone (txPb / rxPb on one stream).        *)
(*   SpecBurst engine 1 receiving more latency requests than p.latencies   *)
(*             holds, with nothing to transmit.                            *)
(*   SpecPace  engine 1 transmitting with TxPacing > 0 against a clock.    *)
(*   SpecLength the length field alone (txLength / rxLength).              *)
(* Termination is stated without fairness: every step raises Measure, so   *)
(* no behaviour is infinite, and a state in which no goroutine is Runnable *)
(* is one the scheduler leaves the engine in for ever.                     *)
(***************************************************************************)
EXTENDS Integers, Sequences, FiniteSets, TLC

(* ------------------------------ bounds -------------------------------- *)

\* largest TxRequests / RxRequests of a test descriptor
MaxRequests == 2

\* frames the remote end writes in Spec
MaxRemoteFrames == 2

\* largest sequence number the remote end puts in a block
MaxRemoteSeq == 1

\* frames written in SpecFrame, and the longest payload of one
MaxFrames == 2

MaxPayload == 2

\* LatencyRequests the remote end of SpecBurst sends beyond the capacity of
\* the pending-latency queue
BurstExtra == 1

\* SpecPace: the largest pacing interval (ms), the largest transmit total and
\* the last instant (ms) of the clock
MaxPacing == 2

MaxPaceRequests == 3

MaxClock == 6

(* ------------------------- program constants -------------------------- *)

MagicHeader == <<202, 254, 240, 13>>

LatenciesCap == 1024

ErrorsCap == 10240

\* capacity of the generator's bounded block queue
GenQueueCap == 1

BlockTypePlain == 0

BlockTypeLatencyRequest == 1

BlockTypeLatencyResponse == 2

BlockTypes == {BlockTypePlain, BlockTypeLatencyRequest, BlockTypeLatencyResponse}

Engines == {1, 2}

\* the engine at the other end of e's connection
Peer(e) == 3 - e

\* error values (nil is the absence of an error)
nil == "nil"

ErrMismatchedHashes == "mismatched hashes"

ErrSequence == "expected sequence"

ErrBadHeader == "bad header"

ErrEOF == "EOF"

ErrUnexpectedEOF == "unexpected EOF"

ErrClosed == "read on closed connection"

ErrWrite == "write on closed connection"

\* line 217: the message the verifier only logs when its timer fires
ErrRxTimeout == "rx timeout exceeded"

ErrUnmarshal == "unmarshal"

ErrNegativeLength == "panic: makeslice: len out of range"

IntegrityErrors == {ErrMismatchedHashes, ErrSequence}

\* line 96: var lastSend time.Time, the zero instant, long before the run
ZeroTime == 0 - 1000

(* ------------------------------ bytes --------------------------------- *)

RECURSIVE SumBytes(_)
SumBytes(s) == IF s = <<>> THEN 0 ELSE Head(s) + SumBytes(Tail(s))

\* sha512.Sum512, abstracted to a one-byte digest of the payload
Sum512(data) == <<(SumBytes(data) + 31 * Len(data) + 7) % 256>>

\* hex.EncodeToString: two hexadecimal digits per byte
EncodeToString(bs) ==
    [i \in 1..(2 * Len(bs)) |->
        IF i % 2 = 1 THEN bs[(i + 1) \div 2] \div 16 ELSE bs[i \div 2] % 16]

\* binary.LittleEndian.PutUint32(out, uint32(length)), the length given as
\* its two 16-bit halves: length = 65536 * hi + lo
PutUint32Halves(hi, lo) == << lo % 256, lo \div 256, hi % 256, hi \div 256 >>

\* the same for 0 <= length < 2^31
PutUint32(length) ==
    << length % 256, (length \div 256) % 256,
       (length \div 65536) % 256, (length \div 16777216) % 256 >>

\* binary.Read(buf, binary.LittleEndian, &length) with length an int32:
\* the top bit of the fourth byte is the sign
ReadInt32(d) ==
    d[1] + 256 * d[2] + 65536 * d[3]
      + 16777216 * (IF d[4] >= 128 THEN d[4] - 256 ELSE d[4])

\* io.ReadFull(p.peer, data) for len(data) = n on a stream holding the bytes
\* `stream`, whose writer has ended (eof) or not: the bytes read and the
\* bytes left, or io.EOF / io.ErrUnexpectedEOF; "block" while the n bytes are
\* not there yet and the writer may still send them
ReadFull(stream, n, eof) ==
    IF Len(stream) >= n
    THEN [err |-> nil, data |-> SubSeq(stream, 1, n),
          rest |-> SubSeq(stream, n + 1, Len(stream))]
    ELSE IF ~eof THEN [err |-> "block", data |-> <<>>, rest |-> stream]
    ELSE [err |-> IF Len(stream) = 0 THEN ErrEOF ELSE ErrUnexpectedEOF,
          data |-> <<>>, rest |-> <<>>]

(* -------------------------- framing codec ----------------------------- *)

\* the bytes the three writes of txPb put on the stream, in order
txMagicHeader == MagicHeader

txLength(length) == PutUint32(length)

txPbMutant(data) == txLength(Len(data)) \o txMagicHeader \o data

txPb(data) == txMagicHeader \o txLength(Len(data)) \o data

\* rxMagicHeader: read four bytes and compare them with MagicHeader
rxMagicHeaderMutant(stream, eof) ==
    LET r == ReadFull(stream, Len(MagicHeader) + 4, eof)
    IN  IF r.err # nil THEN r
        ELSE IF SubSeq(r.data, 1, 4) # MagicHeader
             THEN [r EXCEPT !.err = ErrBadHeader]
             ELSE [r EXCEPT !.rest = SubSeq(r.data, 5, 8) \o r.rest]

rxMagicHeader(stream, eof) ==
    LET r == ReadFull(stream, Len(MagicHeader), eof)
    IN  IF r.err # nil THEN r
        ELSE IF r.data # MagicHeader THEN [r EXCEPT !.err = ErrBadHeader]
        ELSE r

\* rxLength: read four bytes and decode them as a little-endian int32
rxLength(stream, eof) ==
    LET r == ReadFull(stream, 4, eof)
    IN  IF r.err # nil THEN [err |-> r.err, length |-> -1, rest |-> r.rest]
        ELSE [err |-> nil, length |-> ReadInt32(r.data), rest |-> r.rest]

\* rxPb up to proto.Unmarshal: the payload of the next frame and the bytes
\* left on the stream, or the error, or "block"
rxPb(stream, eof) ==
    LET h == rxMagicHeader(stream, eof)
    IN  IF h.err # nil THEN [err |-> h.err, data |-> <<>>, rest |-> h.rest]
        ELSE LET l == rxLength(h.rest, eof)
             IN  IF l.err # nil
                 THEN [err |-> l.err, data |-> <<>>, rest |-> l.rest]
                 ELSE IF l.length < 0
                 THEN [err |-> ErrNegativeLength, data |-> <<>>, rest |-> l.rest]
                 ELSE ReadFull(l.rest, l.length, eof)

(* ------------------------------ blocks -------------------------------- *)

\* a Block: Sequence, Type, Timestamp, Data, Hash
NewBlock(seq, type, ts, data, hash) ==
    [Sequence |-> seq, Type |-> type, Timestamp |-> ts,
     Data |-> data, Hash |-> hash]

\* the schema-encoded body of a Block: the fixed fields, then the payload
Marshal(b) == <<b.Sequence, b.Type, b.Timestamp>> \o b.Hash \o b.Data

Unmarshal(bytes) ==
    IF Len(bytes) < 4 THEN [err |-> ErrUnmarshal, block |-> NewBlock(0, 0, 0, <<>>, <<>>)]
    ELSE [err |-> nil,
          block |-> NewBlock(bytes[1], bytes[2], bytes[3],
                             SubSeq(bytes, 5, Len(bytes)), <<bytes[4]>>)]

\* Block.Tx: the frame written for a block
BlockTx(b) == txPb(Marshal(b))

\* p.rxBlock / Block.Rx: the next block of the stream
rxBlock(stream, eof) ==
    LET r == rxPb(stream, eof)
    IN  IF r.err # nil
        THEN [err |-> r.err, block |-> NewBlock(0, 0, 0, <<>>, <<>>), rest |-> r.rest]
        ELSE LET u == Unmarshal(r.data)
             IN  [err |-> u.err, block |-> u.block, rest |-> r.rest]

(* ------------------------------- state -------------------------------- *)

VARIABLES
    test,            \* p.test: the Test descriptor given to run
    runPc,           \* where run is: idle, waitRx, waitTx, collect, returned
    result,          \* what run returned
    genCount,        \* blocks the generator has produced
    genBlocks,       \* p.txGenerator.blocks, a bounded queue
    genClosed,       \* p.txGenerator.blocks has been closed
    txPc,            \* where txer is: off, loop, signal, exit
    txCount,         \* p.txCount
    rxPc,            \* where rxer is: off, loop, send, signal, exit
    rxCount,         \* p.rxCount
    rxHeld,          \* the block rxer offers on p.rxBlocks (rxPc = send)
    rxBlocksClosed,  \* p.rxBlocks has been closed
    verPc,           \* where verifier is: off, select, check, closing,
                     \*   failed, timedout, done
    verBlock,        \* the block verifier took from p.rxBlocks
    rxSequence,      \* p.rxSequence
    latencies,       \* p.latencies
    errors,          \* p.errors
    closed,          \* p.peer.Close() has been called on this end
    wire,            \* the bytes written to this end and not yet read
    sent,            \* history: the blocks txer has sent, in order
    probes,          \* history: the timestamps of the LatencyRequests rxer read
    received,        \* history: the sequence numbers of the blocks rxer read
    lastRx,          \* p.lastRx, in ms on the clock of now
    accepted,        \* history: the sequence numbers verifier accepted
    remoteFrames,    \* history: frames the remote end has written (Spec)
    written,         \* history: payloads given to txPb (SpecFrame)
    now,             \* the clock, in ms since run was called (SpecPace)
    lastSend,        \* txer's lastSend
    txHeld,          \* the block txer holds while it paces its send
    wakeAt,          \* the instant txer's time.Sleep is due to end
    sendTimes,       \* history: the instant of each send of txer
    schedTimes,      \* history: lastSend at each send of txer
    lengthIn,        \* the length given to txLength, as 16-bit halves (SpecLength)
    lengthOut,       \* what rxLength returned, and what make([]byte, length) did
    readBack         \* history: payloads returned by rxPb (SpecFrame)

vars == << test, runPc, result, genCount, genBlocks, genClosed, txPc, txCount,
           rxPc, rxCount, rxHeld, rxBlocksClosed, verPc, verBlock, rxSequence,
           latencies, errors, closed, wire, sent, probes, received, lastRx,
           accepted,
           remoteFrames, written, readBack, now, lastSend, txHeld, wakeAt,
           sendTimes, schedTimes, lengthIn, lengthOut >>

genVars == << genCount, genBlocks, genClosed >>

txVars == << txPc, txCount, sent >>

rxVars == << rxPc, rxCount, rxHeld, rxBlocksClosed, probes, received, lastRx >>

verVars == << verPc, verBlock, rxSequence, accepted >>

runVars == << test, runPc, result >>

frameVars == << written, readBack >>

paceVars == << now, lastSend, txHeld, wakeAt, sendTimes, schedTimes >>

lengthVars == << lengthIn, lengthOut >>

NoBlock == NewBlock(0, BlockTypePlain, 0, <<>>, <<>>)

Tests ==
    [TxRequests : 0..MaxRequests, RxRequests : 0..MaxRequests,
     LatencyFrequency : {0, 2}, PayloadMinBytes : {1}, PayloadMaxBytes : {1},
     TxPacing : {0}, TxMaxJitter : {0}]

\* newProtocol, for both ends, before run is called
newProtocol(tests) ==
    /\ test = tests
    /\ runPc = [e \in Engines |-> "idle"]
    /\ result = [e \in Engines |-> nil]
    /\ genCount = [e \in Engines |-> 0]
    /\ genBlocks = [e \in Engines |-> <<>>]
    /\ genClosed = [e \in Engines |-> FALSE]
    /\ txPc = [e \in Engines |-> "off"]
    /\ txCount = [e \in Engines |-> 0]
    /\ rxPc = [e \in Engines |-> "off"]
    /\ rxCount = [e \in Engines |-> 0]
    /\ rxHeld = [e \in Engines |-> NoBlock]
    /\ rxBlocksClosed = [e \in Engines |-> FALSE]
    /\ verPc = [e \in Engines |-> "off"]
    /\ verBlock = [e \in Engines |-> NoBlock]
    /\ rxSequence = [e \in Engines |-> 0]
    /\ latencies = [e \in Engines |-> <<>>]
    /\ errors = [e \in Engines |-> <<>>]
    /\ closed = [e \in Engines |-> FALSE]
    /\ wire = [e \in Engines |-> <<>>]
    /\ sent = [e \in Engines |-> <<>>]
    /\ probes = [e \in Engines |-> <<>>]
    /\ received = [e \in Engines |-> <<>>]
    \* lastRx is not set by newProtocol: its zero value is, like the zero
    \* time, long before the run
    /\ lastRx = [e \in Engines |-> ZeroTime]
    /\ accepted = [e \in Engines |-> <<>>]
    /\ remoteFrames = 0
    /\ written = <<>>
    /\ readBack = <<>>
    /\ now = 0
    /\ lastSend = [e \in Engines |-> ZeroTime]
    /\ txHeld = [e \in Engines |-> NoBlock]
    /\ wakeAt = [e \in Engines |-> 0]
    /\ sendTimes = [e \in Engines |-> <<>>]
    /\ schedTimes = [e \in Engines |-> <<>>]
    /\ lengthOut = <<>>

(* ----------------------------- generator ------------------------------ *)

\* the payloads of PayloadMinBytes..PayloadMaxBytes bytes (one byte value)
Payloads(min, max) == {[i \in 1..n |-> 5] : n \in min..max}

\* the block the generator makes for sequence number seq
generatorBlock(t, seq, data) ==
    IF t.LatencyFrequency > 0 /\ seq % t.LatencyFrequency = 0
    THEN NewBlock(seq, BlockTypeLatencyRequest, seq + 1, data, Sum512(data))
    ELSE NewBlock(seq, BlockTypePlain, 0, data, Sum512(data))

\* the generator can go on: it has a block to make and room in the queue,
\* or only the close of the queue left
generatorReady(e) ==
    /\ runPc[e] # "idle"
    /\ ~genClosed[e]
    /\ genCount[e] < test[e].TxRequests => Len(genBlocks[e]) < GenQueueCap

\* generator.run: one block onto the queue, or the queue's close at the end
generatorRun(e) ==
    /\ generatorReady(e)
    /\ IF genCount[e] < test[e].TxRequests
       THEN /\ \E data \in Payloads(test[e].PayloadMinBytes, test[e].PayloadMaxBytes) :
                 genBlocks' = [genBlocks EXCEPT
                    ![e] = Append(@, generatorBlock(test[e], genCount[e], data))]
            /\ genCount' = [genCount EXCEPT ![e] = @ + 1]
            /\ UNCHANGED genClosed
       ELSE /\ genClosed' = [genClosed EXCEPT ![e] = TRUE]
            /\ UNCHANGED << genCount, genBlocks >>
    /\ UNCHANGED << runVars, txVars, rxVars, verVars, latencies, errors,
                    closed, wire, remoteFrames, frameVars,
                    paceVars, lengthVars >>

(* -------------------------------- txer -------------------------------- *)

\* lines 102-113: a Plain block takes the oldest pending latency timestamp
txerConvertMutant(block, pending) ==
    IF block.Type = BlockTypePlain /\ pending # <<>>
    THEN [block EXCEPT !.Type = BlockTypeLatencyResponse,
                       !.Timestamp = pending[Len(pending)]]
    ELSE block

txerConvertRenumbers(block, pending) ==
    IF block.Type = BlockTypePlain /\ pending # <<>>
    THEN [block EXCEPT !.Type = BlockTypeLatencyResponse,
                       !.Timestamp = Head(pending),
                       !.Sequence = 0]
    ELSE block

txerConvert(block, pending) ==
    IF block.Type = BlockTypePlain /\ pending # <<>>
    THEN [block EXCEPT !.Type = BlockTypeLatencyResponse,
                       !.Timestamp = Head(pending)]
    ELSE block

\* p.peer.Write fails on a connection either end has closed
writeFails(e) == closed[e] \/ closed[Peer(e)]

\* line 97: for p.txCount < p.test.TxRequests
txerContinue(count, total) == count < total

\* lines 131-132: atomic.AddInt32(&p.txCount, 1) only when block.Tx returned nil
txerCountedMutant(count, err) == count + 1

txerCounted(count, err) == IF err = nil THEN count + 1 ELSE count

\* txer is in its loop and the receive from the generator's queue can
\* proceed (a block, or nil from the closed queue); pushing a send error
\* needs room in p.errors
txerReady(e) ==
    /\ txPc[e] = "loop"
    /\ txerContinue(txCount[e], test[e].TxRequests)
    /\ genBlocks[e] # <<>> \/ genClosed[e]
    /\ (genBlocks[e] # <<>> /\ writeFails(e)) => Len(errors[e]) < ErrorsCap

\* one iteration of txer's loop when no pacing is configured (line 115)
txerStep(e) ==
    /\ txerReady(e)
    /\ test[e].TxPacing = 0
    /\ IF genBlocks[e] = <<>>
       THEN \* block == nil: "tx blocks chan closed"
            /\ txPc' = [txPc EXCEPT ![e] = "signal"]
            /\ UNCHANGED << genBlocks, latencies, errors, wire, txCount, sent >>
       ELSE LET block == txerConvert(Head(genBlocks[e]), latencies[e])
            IN  /\ genBlocks' = [genBlocks EXCEPT ![e] = Tail(@)]
                /\ latencies' = [latencies EXCEPT ![e] =
                      IF Head(genBlocks[e]).Type = BlockTypePlain /\ @ # <<>>
                      THEN Tail(@) ELSE @]
                /\ IF writeFails(e)
                   THEN /\ errors' = [errors EXCEPT ![e] = Append(@, ErrWrite)]
                        /\ txPc' = [txPc EXCEPT ![e] = "signal"]
                        /\ txCount' = [txCount EXCEPT ![e] = txerCounted(@, ErrWrite)]
                        /\ UNCHANGED << wire, sent >>
                   ELSE /\ wire' = [wire EXCEPT ![Peer(e)] = @ \o BlockTx(block)]
                        /\ txCount' = [txCount EXCEPT ![e] = txerCounted(@, nil)]
                        /\ sent' = [sent EXCEPT ![e] = Append(@, block)]
                        /\ UNCHANGED << errors, txPc >>
    /\ UNCHANGED << runVars, genCount, genClosed, rxVars, verVars, closed,
                    remoteFrames, frameVars,
                    paceVars, lengthVars >>

\* lines 116-119: jitter := rand.Intn(int(p.test.TxMaxJitter)), or 0
Jitters(t) == IF t.TxMaxJitter > 0 THEN 0..(t.TxMaxJitter - 1) ELSE {0}

\* line 121: nextSend := lastSend.Add((TxPacing + jitter) ms)
nextSend(last, pacing, jitter) == last + pacing + jitter

\* lines 123-128: the new lastSend, the scheduled instant if it is still to
\* come and the current instant otherwise
txerScheduleMutant(next, clock) == clock

txerSchedule(next, clock) == IF next > clock THEN next ELSE clock

\* lines 99-129 with pacing configured: the block is received and converted,
\* and the send is scheduled; txer sleeps if the scheduled instant is ahead
txerPace(e) ==
    /\ txerReady(e)
    /\ test[e].TxPacing > 0
    /\ IF genBlocks[e] = <<>>
       THEN /\ txPc' = [txPc EXCEPT ![e] = "signal"]
            /\ UNCHANGED << genBlocks, latencies, lastSend, txHeld, wakeAt >>
       ELSE \E jitter \in Jitters(test[e]) :
               LET next == nextSend(lastSend[e], test[e].TxPacing, jitter)
               IN  /\ txHeld' = [txHeld EXCEPT ![e] =
                         txerConvert(Head(genBlocks[e]), latencies[e])]
                   /\ genBlocks' = [genBlocks EXCEPT ![e] = Tail(@)]
                   /\ latencies' = [latencies EXCEPT ![e] =
                         IF Head(genBlocks[e]).Type = BlockTypePlain /\ @ # <<>>
                         THEN Tail(@) ELSE @]
                   /\ lastSend' = [lastSend EXCEPT ![e] = txerSchedule(next, now)]
                   /\ wakeAt' = [wakeAt EXCEPT ![e] = next]
                   /\ txPc' = [txPc EXCEPT ![e] =
                         IF next > now THEN "sleep" ELSE "tx"]
    /\ UNCHANGED << runVars, genCount, genClosed, txCount, sent, rxVars, verVars,
                    errors, closed, wire, remoteFrames, frameVars, now,
                    sendTimes, schedTimes, lengthVars >>

\* line 124: time.Sleep returns, at the scheduled instant or later
txerWake(e) ==
    /\ txPc[e] = "sleep"
    /\ now >= wakeAt[e]
    /\ txPc' = [txPc EXCEPT ![e] = "tx"]
    /\ UNCHANGED << runVars, genVars, txCount, sent, rxVars, verVars, latencies,
                    errors, closed, wire, remoteFrames, frameVars, now,
                    lastSend, txHeld, wakeAt, sendTimes, schedTimes, lengthVars >>

\* lines 131-137: block.Tx of the held block
txerTx(e) ==
    /\ txPc[e] = "tx"
    /\ writeFails(e) => Len(errors[e]) < ErrorsCap
    /\ IF writeFails(e)
       THEN /\ errors' = [errors EXCEPT ![e] = Append(@, ErrWrite)]
            /\ txPc' = [txPc EXCEPT ![e] = "signal"]
            /\ txCount' = [txCount EXCEPT ![e] = txerCounted(@, ErrWrite)]
            /\ UNCHANGED << wire, sent, sendTimes, schedTimes >>
       ELSE /\ wire' = [wire EXCEPT ![Peer(e)] = @ \o BlockTx(txHeld[e])]
            /\ txCount' = [txCount EXCEPT ![e] = txerCounted(@, nil)]
            /\ sent' = [sent EXCEPT ![e] = Append(@, txHeld[e])]
            /\ sendTimes' = [sendTimes EXCEPT ![e] = Append(@, now)]
            /\ schedTimes' = [schedTimes EXCEPT ![e] = Append(@, lastSend[e])]
            /\ txPc' = [txPc EXCEPT ![e] = "loop"]
            /\ UNCHANGED errors
    /\ txHeld' = [txHeld EXCEPT ![e] = NoBlock]
    /\ UNCHANGED << runVars, genVars, rxVars, verVars, latencies, closed,
                    remoteFrames, frameVars, now, lastSend, wakeAt, lengthVars >>

\* a millisecond passes
clockTick ==
    /\ now < MaxClock
    /\ now' = now + 1
    /\ UNCHANGED << runVars, genVars, txVars, rxVars, verVars, latencies,
                    errors, closed, wire, remoteFrames, frameVars, lastSend,
                    txHeld, wakeAt, sendTimes, schedTimes, lengthVars >>

\* the loop condition fails: "tx count reached"
txerAtEnd(e) == txPc[e] = "loop" /\ ~txerContinue(txCount[e], test[e].TxRequests)

txerCountReached(e) ==
    /\ txerAtEnd(e)
    /\ txPc' = [txPc EXCEPT ![e] = "signal"]
    /\ UNCHANGED << runVars, genVars, txCount, sent, rxVars, verVars, latencies,
                    errors, closed, wire, remoteFrames, frameVars,
                    paceVars, lengthVars >>

(* -------------------------------- rxer -------------------------------- *)

\* p.rxBlock() on this end of the connection: a read on an end closed here
\* fails at once; otherwise the bytes on the wire decide
rxerRxBlock(e) ==
    IF closed[e]
    THEN [err |-> ErrClosed, block |-> NoBlock, rest |-> wire[e]]
    ELSE rxBlock(wire[e], closed[Peer(e)])

\* lines 162-168: a LatencyRequest's timestamp is queued unless the queue is full
rxerLatencyMutant(block, pending) ==
    IF block.Type = BlockTypeLatencyRequest
    THEN Append(pending, block.Timestamp)
    ELSE pending

rxerLatency(block, pending) ==
    IF block.Type = BlockTypeLatencyRequest /\ Len(pending) < LatenciesCap
    THEN Append(pending, block.Timestamp)
    ELSE pending

\* line 154: for p.rxCount < p.test.RxRequests
rxerContinueMutant(count, total) == count <= total

rxerContinueUnbounded(count, total) == TRUE

rxerContinue(count, total) == count < total

\* rxer is in its loop and p.rxBlock() returns: the bytes of a frame, or of
\* a wrong marker, are there, or the stream has ended or was closed
rxerReady(e) ==
    /\ rxPc[e] = "loop"
    /\ rxerContinue(rxCount[e], test[e].RxRequests)
    /\ rxerRxBlock(e).err # "block"
    /\ rxerRxBlock(e).err # nil => Len(errors[e]) < ErrorsCap

\* one iteration of rxer's loop up to the send on p.rxBlocks
rxerRead(e) ==
    /\ rxerReady(e)
    /\ LET r == rxerRxBlock(e)
       IN  /\ wire' = [wire EXCEPT ![e] = r.rest]
           /\ IF r.err # nil
              THEN /\ errors' = [errors EXCEPT ![e] = Append(@, r.err)]
                   /\ rxPc' = [rxPc EXCEPT ![e] = "signal"]
                   /\ UNCHANGED << latencies, rxCount, rxHeld, probes, received, lastRx >>
              ELSE /\ latencies' = [latencies EXCEPT ![e] = rxerLatency(r.block, @)]
                   /\ probes' = [probes EXCEPT ![e] =
                         IF r.block.Type = BlockTypeLatencyRequest
                         THEN Append(@, r.block.Timestamp) ELSE @]
                   /\ rxCount' = [rxCount EXCEPT ![e] = @ + 1]
                   /\ received' = [received EXCEPT ![e] = Append(@, r.block.Sequence)]
                   /\ lastRx' = [lastRx EXCEPT ![e] = now]
                   /\ rxHeld' = [rxHeld EXCEPT ![e] = r.block]
                   /\ rxPc' = [rxPc EXCEPT ![e] = "send"]
                   /\ UNCHANGED errors
    /\ UNCHANGED << runVars, genVars, txVars, rxBlocksClosed, verVars, closed,
                    remoteFrames, frameVars,
                    paceVars, lengthVars >>

\* the loop condition fails: close(p.rxBlocks), "rx count reached"
rxerAtEnd(e) == rxPc[e] = "loop" /\ ~rxerContinue(rxCount[e], test[e].RxRequests)

rxerCountReached(e) ==
    /\ rxerAtEnd(e)
    /\ rxBlocksClosed' = [rxBlocksClosed EXCEPT ![e] = TRUE]
    /\ rxPc' = [rxPc EXCEPT ![e] = "signal"]
    /\ UNCHANGED << runVars, genVars, txVars, rxCount, rxHeld, probes, received, lastRx, verVars,
                    latencies, errors, closed, wire, remoteFrames, frameVars,
                    paceVars, lengthVars >>

(* ------------------------------ verifier ------------------------------ *)

\* case block := <-p.rxBlocks: the unbuffered channel hands over rxer's
\* block, or yields nil once the channel is closed
verifierRecvReady(e) ==
    verPc[e] = "select" /\ (rxPc[e] = "send" \/ rxBlocksClosed[e])

verifierRecv(e) ==
    /\ verifierRecvReady(e)
    /\ IF rxPc[e] = "send"
       THEN /\ verBlock' = [verBlock EXCEPT ![e] = rxHeld[e]]
            /\ verPc' = [verPc EXCEPT ![e] = "check"]
            /\ rxPc' = [rxPc EXCEPT ![e] = "loop"]
            /\ rxHeld' = [rxHeld EXCEPT ![e] = NoBlock]
       ELSE /\ verPc' = [verPc EXCEPT ![e] = "done"]
            /\ UNCHANGED << verBlock, rxPc, rxHeld >>
    /\ UNCHANGED << runVars, genVars, txVars, rxCount, rxBlocksClosed, probes, received, lastRx,
                    rxSequence, accepted, latencies, errors, closed, wire,
                    remoteFrames, frameVars,
                    paceVars, lengthVars >>

\* case <-time.After(RxTimeout): the timeout is logged and verifier returns
verifierTimeoutStoresLastRx(e) ==
    /\ verPc[e] = "select"
    /\ verPc' = [verPc EXCEPT ![e] = "timedout"]
    /\ lastRx' = [lastRx EXCEPT ![e] = now]
    /\ UNCHANGED << runVars, genVars, txVars, rxPc, rxCount, rxHeld,
                    rxBlocksClosed, probes, received, verBlock, rxSequence,
                    accepted, latencies, errors, closed, wire, remoteFrames,
                    frameVars, paceVars, lengthVars >>

verifierTimeout(e) ==
    /\ verPc[e] = "select"
    /\ verPc' = [verPc EXCEPT ![e] = "timedout"]
    /\ UNCHANGED << runVars, genVars, txVars, rxVars, verBlock, rxSequence,
                    accepted, latencies, errors, closed, wire, remoteFrames,
                    frameVars,
                    paceVars, lengthVars >>

\* line 199: p.rxSequence++
verifierAdvanceMutant(seq) == seq + 2

verifierAdvance(seq) == seq + 1

\* lines 188-209: the checks of one block
verifierVerdictNoSequence(block, expected) ==
    IF EncodeToString(Sum512(block.Data)) # EncodeToString(block.Hash)
    THEN ErrMismatchedHashes
    ELSE nil

verifierVerdictNoHash(block, expected) ==
    IF block.Sequence = expected THEN nil ELSE ErrSequence

verifierVerdict(block, expected) ==
    IF block.Sequence = expected
    THEN IF EncodeToString(Sum512(block.Data)) # EncodeToString(block.Hash)
         THEN ErrMismatchedHashes
         ELSE nil
    ELSE ErrSequence

\* where verifier goes after the checks: round the loop after an accepted
\* block, to p.peer.Close() (lines 193, 204) after a pushed error
verifierAfterMutant(err) == "closing"

verifierAfter(err) == IF err = nil THEN "select" ELSE "closing"

verifierCheckReady(e) ==
    /\ verPc[e] = "check"
    /\ verifierVerdict(verBlock[e], rxSequence[e]) # nil => Len(errors[e]) < ErrorsCap

verifierCheck(e) ==
    /\ verifierCheckReady(e)
    /\ LET err == verifierVerdict(verBlock[e], rxSequence[e])
       IN  /\ verPc' = [verPc EXCEPT ![e] = verifierAfter(err)]
           /\ IF err = nil
              THEN /\ rxSequence' = [rxSequence EXCEPT ![e] = verifierAdvance(@)]
                   /\ accepted' = [accepted EXCEPT ![e] = Append(@, verBlock[e].Sequence)]
                   /\ UNCHANGED errors
              ELSE /\ errors' = [errors EXCEPT ![e] = Append(@, err)]
                   /\ UNCHANGED << rxSequence, accepted >>
    /\ UNCHANGED << runVars, genVars, txVars, rxVars, verBlock, latencies,
                    closed, wire, remoteFrames, frameVars,
                    paceVars, lengthVars >>

\* p.peer.Close() after the error was pushed, then return
verifierClose(e) ==
    /\ verPc[e] = "closing"
    /\ closed' = [closed EXCEPT ![e] = TRUE]
    /\ verPc' = [verPc EXCEPT ![e] = "failed"]
    /\ UNCHANGED << runVars, genVars, txVars, rxVars, verBlock, rxSequence,
                    accepted, latencies, errors, wire, remoteFrames, frameVars,
                    paceVars, lengthVars >>

(* -------------------------------- run --------------------------------- *)

\* line 71: if p.test.RxRequests > 0 { go p.verifier() }
runStartsVerifierMutant(t) == TRUE

runStartsVerifier(t) == t.RxRequests > 0

\* lines 65-76: the goroutines are started
runStart(e) ==
    /\ runPc[e] = "idle"
    /\ runPc' = [runPc EXCEPT ![e] = "waitRx"]
    /\ txPc' = [txPc EXCEPT ![e] = "loop"]
    /\ rxPc' = [rxPc EXCEPT ![e] = "loop"]
    /\ verPc' = [verPc EXCEPT ![e] =
          IF runStartsVerifier(test[e]) THEN "select" ELSE "off"]
    /\ UNCHANGED << test, result, genVars, txCount, sent, rxCount, rxHeld,
                    rxBlocksClosed, probes, received, lastRx, verBlock, rxSequence, accepted, latencies,
                    errors, closed, wire, remoteFrames, frameVars,
                    paceVars, lengthVars >>

\* <-rxerDone: rxer's deferred done <- true meets run's receive
runRxerDoneReady(e) == runPc[e] = "waitRx" /\ rxPc[e] = "signal"

runRxerDone(e) ==
    /\ runRxerDoneReady(e)
    /\ runPc' = [runPc EXCEPT ![e] = "waitTx"]
    /\ rxPc' = [rxPc EXCEPT ![e] = "exit"]
    /\ UNCHANGED << test, result, genVars, txVars, rxCount, rxHeld,
                    rxBlocksClosed, probes, received, lastRx, verVars, latencies, errors, closed, wire,
                    remoteFrames, frameVars,
                    paceVars, lengthVars >>

\* <-txerDone
runTxerDoneReady(e) == runPc[e] = "waitTx" /\ txPc[e] = "signal"

runTxerDone(e) ==
    /\ runTxerDoneReady(e)
    /\ runPc' = [runPc EXCEPT ![e] = "collect"]
    /\ txPc' = [txPc EXCEPT ![e] = "exit"]
    /\ UNCHANGED << test, result, genVars, txCount, sent, rxVars, verVars,
                    latencies, errors, closed, wire, remoteFrames, frameVars,
                    paceVars, lengthVars >>

\* lines 81-86: the oldest queued error, or nil
runResultMutant(errs) == IF Len(errs) > 0 THEN errs[Len(errs)] ELSE nil

runResult(errs) == IF Len(errs) > 0 THEN Head(errs) ELSE nil

runReturn(e) ==
    /\ runPc[e] = "collect"
    /\ result' = [result EXCEPT ![e] = runResult(errors[e])]
    /\ errors' = [errors EXCEPT ![e] = IF Len(@) > 0 THEN Tail(@) ELSE @]
    /\ runPc' = [runPc EXCEPT ![e] = "returned"]
    /\ UNCHANGED << test, genVars, txVars, rxVars, verVars, latencies, closed,
                    wire, remoteFrames, frameVars,
                    paceVars, lengthVars >>

\* some goroutine of engine e can take a step: none of them is blocked on a
\* channel, on the connection or at its end
Runnable(e) ==
    \/ runPc[e] = "idle"
    \/ generatorReady(e)
    \/ txerReady(e)
    \/ txerAtEnd(e)
    \/ rxerReady(e)
    \/ rxerAtEnd(e)
    \/ verPc[e] \in {"select", "check", "closing"} /\ (verPc[e] = "check" => verifierCheckReady(e))
    \/ runRxerDoneReady(e)
    \/ runTxerDoneReady(e)
    \/ runPc[e] = "collect"

(* --------------------------- the remote end --------------------------- *)
(* In Spec the far end of engine 1's connection (slot 2) is not an engine  *)
(* but any writer: it frames blocks of any sequence number and type, with  *)
(* an intact or a corrupted payload, writes a frame with a wrong marker,   *)
(* stops in the middle of a frame, or closes the stream.                   *)

\* a payload byte changed after the hash was taken
corrupt(data) == [data EXCEPT ![1] = (@ + 1) % 256]

\* Plain blocks of any sequence number, intact or corrupted, and an intact
\* LatencyRequest numbered as the next frame in order
RemoteBlocks ==
    { NewBlock(seq, BlockTypePlain, 0, IF ok THEN <<5>> ELSE corrupt(<<5>>),
               Sum512(<<5>>)) : seq \in 0..MaxRemoteSeq, ok \in BOOLEAN }
    \cup
    { NewBlock(remoteFrames, BlockTypeLatencyRequest, 9 + remoteFrames, <<5>>,
               Sum512(<<5>>)) }

BadMagic == <<202, 254, 240, 14>>

\* slot 2 is the remote end, and engine 1's run is in progress: what the
\* remote end does before run starts is seen only once it has started, and
\* nothing of the engine looks at the connection after run has returned
remoteActive == runPc[2] = "idle" /\ runPc[1] \notin {"idle", "returned"}

remoteSend(b) ==
    /\ remoteActive
    /\ ~closed[2]
    /\ remoteFrames < MaxRemoteFrames
    /\ wire' = [wire EXCEPT ![1] = @ \o BlockTx(b)]
    /\ remoteFrames' = remoteFrames + 1
    /\ UNCHANGED << runVars, genVars, txVars, rxVars, verVars, latencies,
                    errors, closed, frameVars,
                    paceVars, lengthVars >>

\* a frame whose first four bytes are not the marker
remoteSendBadMagic ==
    /\ remoteActive
    /\ ~closed[2]
    /\ remoteFrames < MaxRemoteFrames
    /\ \E b \in {NewBlock(remoteFrames, BlockTypePlain, 0, <<5>>, Sum512(<<5>>))} :
          wire' = [wire EXCEPT ![1] =
                      @ \o BadMagic \o txLength(Len(Marshal(b))) \o Marshal(b)]
    /\ remoteFrames' = remoteFrames + 1
    /\ UNCHANGED << runVars, genVars, txVars, rxVars, verVars, latencies,
                    errors, closed, frameVars,
                    paceVars, lengthVars >>

\* the first n bytes of a frame, then the stream ends
remoteTruncate(n) ==
    /\ remoteActive
    /\ ~closed[2]
    /\ remoteFrames < MaxRemoteFrames
    /\ LET f == BlockTx(NewBlock(remoteFrames, BlockTypePlain, 0, <<5>>, Sum512(<<5>>)))
       IN  wire' = [wire EXCEPT ![1] = @ \o SubSeq(f, 1, n)]
    /\ remoteFrames' = remoteFrames + 1
    /\ closed' = [closed EXCEPT ![2] = TRUE]
    /\ UNCHANGED << runVars, genVars, txVars, rxVars, verVars, latencies,
                    errors, frameVars,
                    paceVars, lengthVars >>

remoteClose ==
    /\ remoteActive
    /\ ~closed[2]
    /\ closed' = [closed EXCEPT ![2] = TRUE]
    /\ UNCHANGED << runVars, genVars, txVars, rxVars, verVars, latencies,
                    errors, wire, remoteFrames, frameVars,
                    paceVars, lengthVars >>

\* the remote end of SpecBurst: a receive-only engine is sent intact
\* LatencyRequests in order, each once the one before it has been read,
\* from the time the engine's txer (with nothing to send) is through
burstSend ==
    /\ remoteActive
    /\ txPc[1] = "signal"
    /\ remoteFrames < LatenciesCap + BurstExtra
    /\ wire[1] = <<>>
    /\ wire' = [wire EXCEPT ![1] =
          BlockTx(NewBlock(remoteFrames, BlockTypeLatencyRequest,
                           9 + remoteFrames, <<5>>, Sum512(<<5>>)))]
    /\ remoteFrames' = remoteFrames + 1
    /\ UNCHANGED << runVars, genVars, txVars, rxVars, verVars, latencies,
                    errors, closed, frameVars,
                    paceVars, lengthVars >>

(* --------------------------- codec alone ------------------------------ *)

FrameBytes == {0, 13, 202}

FramePayloads == UNION {[1..n -> FrameBytes] : n \in 0..MaxPayload}

\* txPb on the stream
frameWrite(data) ==
    /\ Len(written) < MaxFrames
    /\ wire' = [wire EXCEPT ![1] = @ \o txPb(data)]
    /\ written' = Append(written, data)
    /\ UNCHANGED << runVars, genVars, txVars, rxVars, verVars, latencies,
                    errors, closed, remoteFrames, readBack, paceVars, lengthVars >>

\* rxPb on the stream
frameRead ==
    /\ LET r == rxPb(wire[1], FALSE)
       IN  /\ r.err = nil
           /\ wire' = [wire EXCEPT ![1] = r.rest]
           /\ readBack' = Append(readBack, r.data)
    /\ UNCHANGED << runVars, genVars, txVars, rxVars, verVars, latencies,
                    errors, closed, remoteFrames, written, paceVars, lengthVars >>

(* ------------------------ length field alone -------------------------- *)

\* the 16-bit halves of the lengths tried: the ends of the range, the byte
\* borders and both sides of 2^31
LengthHighs == {0, 1, 255, 256, 32767, 32768, 65535}

LengthLows == {0, 1, 255, 256, 4660, 65535}

NoLength == [hi |-> 0, lo |-> 0]

\* lines 326-329: txLength(p.peer, length) on an empty stream
lengthWrite ==
    /\ wire[1] = <<>>
    /\ lengthOut = <<>>
    /\ wire' = [wire EXCEPT ![1] = PutUint32Halves(lengthIn.hi, lengthIn.lo)]
    /\ UNCHANGED << runVars, genVars, txVars, rxVars, verVars, latencies,
                    errors, closed, remoteFrames, frameVars, paceVars, lengthVars >>

\* lines 289-301: length, err := p.rxLength(); data := make([]byte, length),
\* which panics on a negative length and otherwise asks for length bytes
lengthRead ==
    /\ wire[1] # <<>>
    /\ LET r == rxLength(wire[1], FALSE)
       IN  /\ r.err = nil
           /\ wire' = [wire EXCEPT ![1] = r.rest]
           /\ lengthOut' = << [length |-> r.length,
                               err |-> IF r.length < 0 THEN ErrNegativeLength ELSE nil] >>
    /\ UNCHANGED << runVars, genVars, txVars, rxVars, verVars, latencies,
                    errors, closed, remoteFrames, frameVars, paceVars, lengthIn >>

(* --------------------------- specifications --------------------------- *)

IdleTest ==
    [TxRequests |-> 0, RxRequests |-> 0, LatencyFrequency |-> 0,
     PayloadMinBytes |-> 0, PayloadMaxBytes |-> 0,
     TxPacing |-> 0, TxMaxJitter |-> 0]

engine(e) ==
    \/ runStart(e)
    \/ generatorRun(e)
    \/ txerStep(e)
    \/ txerCountReached(e)
    \/ rxerRead(e)
    \/ rxerCountReached(e)
    \/ verifierRecv(e)
    \/ verifierTimeout(e)
    \/ verifierCheck(e)
    \/ runRxerDone(e)
    \/ runTxerDone(e)
    \/ runReturn(e)

remote ==
    \/ \E b \in RemoteBlocks : remoteSend(b)
    \/ remoteSendBadMagic
    \/ \E n \in {2, 10} : remoteTruncate(n)
    \/ remoteClose

\* Spec's descriptors ask for a latency probe on every second block, so that
\* engine 1 sends LatencyRequests and Plain blocks; SpecPair has both settings
SpecTests == {t \in Tests : t.LatencyFrequency = 2}

Init ==
    /\ \E t \in SpecTests : newProtocol([e \in Engines |-> IF e = 1 THEN t ELSE IdleTest])
    /\ lengthIn = NoLength

Next == engine(1) \/ verifierClose(1) \/ remote

Spec == Init /\ [][Next]_vars

\* two engines: each side's transmit total is the other side's receive total
InitPair ==
    /\ \E a, b \in 0..MaxRequests, f \in {0, 2} :
        newProtocol([e \in Engines |->
            [TxRequests |-> IF e = 1 THEN a ELSE b,
             RxRequests |-> IF e = 1 THEN b ELSE a,
             LatencyFrequency |-> f,
             PayloadMinBytes |-> 1, PayloadMaxBytes |-> 1,
             TxPacing |-> 0, TxMaxJitter |-> 0]])
    /\ lengthIn = NoLength

NextPair == \E e \in Engines : engine(e)

SpecPair == InitPair /\ [][NextPair]_vars

\* a receive-only engine that expects more LatencyRequests than the
\* pending-latency queue holds; with a transmit total of zero the body of
\* txer's loop never runs and nothing takes a timestamp off the queue
BurstTest ==
    [TxRequests |-> 0, RxRequests |-> LatenciesCap + BurstExtra,
     LatencyFrequency |-> 0, PayloadMinBytes |-> 1, PayloadMaxBytes |-> 1,
     TxPacing |-> 0, TxMaxJitter |-> 0]

InitBurst ==
    /\ newProtocol([e \in Engines |-> IF e = 1 THEN BurstTest ELSE IdleTest])
    /\ lengthIn = NoLength

NextBurst ==
    \/ runStart(1)
    \/ generatorRun(1)
    \/ txerCountReached(1)
    \/ rxerRead(1)
    \/ rxerCountReached(1)
    \/ verifierRecv(1)
    \/ verifierTimeout(1)
    \/ verifierCheck(1)
    \/ runRxerDone(1)
    \/ runTxerDone(1)
    \/ runReturn(1)
    \/ burstSend

SpecBurst == InitBurst /\ [][NextBurst]_vars

\* a transmit-only engine with pacing configured, with and without jitter
PaceTests ==
    [TxRequests : 0..MaxPaceRequests, RxRequests : {0}, LatencyFrequency : {0},
     PayloadMinBytes : {1}, PayloadMaxBytes : {1},
     TxPacing : 1..MaxPacing, TxMaxJitter : {0, 2}]

InitPace ==
    /\ \E t \in PaceTests : newProtocol([e \in Engines |-> IF e = 1 THEN t ELSE IdleTest])
    /\ lengthIn = NoLength

NextPace ==
    \/ runStart(1)
    \/ generatorRun(1)
    \/ txerPace(1)
    \/ txerWake(1)
    \/ txerTx(1)
    \/ txerCountReached(1)
    \/ rxerCountReached(1)
    \/ runRxerDone(1)
    \/ runTxerDone(1)
    \/ runReturn(1)
    \/ clockTick

SpecPace == InitPace /\ [][NextPace]_vars

InitFrame == newProtocol([e \in Engines |-> IdleTest]) /\ lengthIn = NoLength

\* the length field alone: txLength of a length, then rxLength and the
\* allocation of the payload buffer
InitLength ==
    /\ newProtocol([e \in Engines |-> IdleTest])
    /\ \E hi \in LengthHighs, lo \in LengthLows : lengthIn = [hi |-> hi, lo |-> lo]

NextLength == lengthWrite \/ lengthRead

SpecLength == InitLength /\ [][NextLength]_vars

NextFrame == (\E data \in FramePayloads : frameWrite(data)) \/ frameRead

SpecFrame == InitFrame /\ [][NextFrame]_vars

(* ------------------------------- claims ------------------------------- *)

Range(q) == {q[i] : i \in 1..Len(q)}

\* the errors an engine has pushed so far: those still queued and the one
\* run has taken
Pushed(e) == Range(errors[e]) \cup ({result[e]} \ {nil})

\* the re-hash of a block's payload differs from the hash it carries
HashMismatch(b) == Sum512(b.Data) # b.Hash

\* C1: the verifier's expected-next counter starts at 0, always equals the
\* number of blocks accepted so far, the accepted blocks carry the sequence
\* numbers 0, 1, ..., N-1 in that order, and the counter changes only by the
\* verifier accepting the block it holds, by exactly one.
C1_AcceptedInOrder ==
    /\ [](\A e \in Engines :
            /\ rxSequence[e] = Len(accepted[e])
            /\ \A i \in 1..Len(accepted[e]) : accepted[e][i] = i - 1)
    /\ [][\A e \in Engines :
            rxSequence'[e] # rxSequence[e] =>
                /\ verPc[e] = "check"
                /\ rxSequence'[e] = rxSequence[e] + 1
                /\ accepted'[e] = Append(accepted[e], rxSequence[e])]_vars

C1_Witness ==
    /\ rxSequence[1] = 2
    /\ accepted[1] = <<0, 1>>
    /\ verPc[1] = "select"

\* C2: a verifier step on a block whose payload re-hash differs from its
\* carried hash pushes an integrity error and goes on to close the
\* connection without advancing the counter; the close is never blocked and
\* is the only way on; once a hash error is recorded the verifier stays
\* stopped and accepts nothing more.
C2_BadHashFatal ==
    /\ [](\A e \in Engines : verPc[e] = "closing" => ENABLED verifierClose(e))
    /\ [](\A e \in Engines : verPc[e] = "failed" => closed[e])
    /\ [][\A e \in Engines :
            /\ (verPc[e] = "check" /\ HashMismatch(verBlock[e])
                    /\ verPc'[e] # "check") =>
                  /\ verPc'[e] = "closing"
                  /\ \E err \in IntegrityErrors :
                        errors'[e] = Append(errors[e], err)
                  /\ rxSequence'[e] = rxSequence[e]
            /\ ErrMismatchedHashes \in Pushed(e) =>
                  /\ verPc[e] \in {"closing", "failed"}
                  /\ verPc'[e] \in {"closing", "failed"}
                  /\ rxSequence'[e] = rxSequence[e]
                  /\ accepted'[e] = accepted[e]
                  /\ verBlock'[e] = verBlock[e]]_vars

C2_Witness ==
    /\ verPc[1] = "failed"
    /\ closed[1]
    /\ HashMismatch(verBlock[1])
    /\ verBlock[1].Sequence = 1
    /\ rxSequence[1] = 1
    /\ ErrMismatchedHashes \in Pushed(1)

\* C3: a verifier step on a block whose sequence number is not the expected
\* one pushes a sequence error at once and goes on to close the connection;
\* the counter is left as it was, and once a sequence error is recorded no
\* block is accepted and the counter never changes again.
C3_BadSequenceFatal ==
    /\ [](\A e \in Engines :
            ErrSequence \in Pushed(e) =>
                verPc[e] \in {"closing", "failed"} /\ (verPc[e] = "failed" <=> closed[e]))
    /\ [][\A e \in Engines :
            /\ (verPc[e] = "check" /\ verBlock[e].Sequence # rxSequence[e]
                    /\ verPc'[e] # "check") =>
                  /\ verPc'[e] = "closing"
                  /\ errors'[e] = Append(errors[e], ErrSequence)
                  /\ rxSequence'[e] = rxSequence[e]
            /\ ErrSequence \in Pushed(e) =>
                  /\ rxSequence'[e] = rxSequence[e]
                  /\ accepted'[e] = accepted[e]
                  /\ verPc'[e] \in {"closing", "failed"}]_vars

C3_Witness ==
    /\ verPc[1] = "failed"
    /\ closed[1]
    /\ rxSequence[1] = 0
    /\ verBlock[1].Sequence = 1
    /\ ~HashMismatch(verBlock[1])
    /\ ErrSequence \in Pushed(1)
    /\ rxPc[1] = "send"

\* C4: a verifier whose idle timeout has fired has recorded a timeout error
\* for run to return.
C4_TimeoutSurfaced ==
    \A e \in Engines : verPc[e] = "timedout" => ErrRxTimeout \in Pushed(e)

\* how far the goroutines of engine e have come; every step of an engine
\* raises it
Progress(e) ==
      (CASE runPc[e] = "idle" -> 0 [] runPc[e] = "waitRx" -> 1
         [] runPc[e] = "waitTx" -> 2 [] runPc[e] = "collect" -> 3
         [] OTHER -> 4)
    + genCount[e] + (IF genClosed[e] THEN 1 ELSE 0)
    + txCount[e]
    + (CASE txPc[e] = "off" -> 0 [] txPc[e] = "loop" -> 1
         [] txPc[e] = "signal" -> 2 [] OTHER -> 3)
    + 3 * rxCount[e]
    + (CASE rxPc[e] = "off" -> 0 [] rxPc[e] = "send" -> 1
         [] rxPc[e] = "loop" -> 2 [] rxPc[e] = "signal" -> 3 [] OTHER -> 4)
    + 2 * rxSequence[e]
    + (CASE verPc[e] = "off" -> 0 [] verPc[e] = "select" -> 1
         [] verPc[e] \in {"check", "timedout", "done"} -> 2
         [] verPc[e] = "closing" -> 3 [] OTHER -> 4)
    + (IF closed[e] THEN 1 ELSE 0)

Measure ==
    Progress(1) + Progress(2) + remoteFrames + Len(written) + Len(readBack)

\* both runs have returned nil with the counters at the configured totals
PairDone ==
    \A e \in Engines :
        /\ runPc[e] = "returned"
        /\ result[e] = nil
        /\ txCount[e] = test[e].TxRequests
        /\ rxCount[e] = test[e].RxRequests

\* the verifier's idle timeout fired before it had verified its last block
TimedOutEarly(e) ==
    verPc[e] = "timedout" /\ rxSequence[e] < test[e].RxRequests

C6_RunWaitsThenFirstError ==
    /\ [](\A e \in Engines :
            runPc[e] \in {"collect", "returned"} =>
                txPc[e] = "exit" /\ rxPc[e] = "exit")
    /\ [][\A e \in Engines :
            /\ errors'[e] # errors[e] =>
                  \/ \E x \in {ErrMismatchedHashes, ErrSequence, ErrBadHeader,
                               ErrEOF, ErrUnexpectedEOF, ErrClosed, ErrWrite,
                               ErrUnmarshal} :
                        errors'[e] = Append(errors[e], x) /\ runPc'[e] = runPc[e]
                  \/ /\ runPc[e] = "collect"
                     /\ runPc'[e] = "returned"
                     /\ errors'[e] = Tail(errors[e])
            /\ (runPc[e] # "returned" /\ runPc'[e] = "returned") =>
                  /\ runPc[e] = "collect"
                  /\ result'[e] = IF errors[e] # <<>> THEN Head(errors[e]) ELSE nil]_vars

C6_Witness ==
    /\ runPc[1] = "returned"
    /\ result[1] = ErrMismatchedHashes
    /\ errors[1] = <<ErrClosed>>

\* C7: once the verifier has recorded an integrity error and closed the
\* connection, the engine comes to rest only with rxer and txer finished and
\* run returned.
C7_LoopsUnwind ==
    \A e \in Engines :
        (verPc[e] = "failed" /\ ~Runnable(e)) =>
            /\ rxPc[e] = "exit"
            /\ txPc[e] = "exit"
            /\ runPc[e] = "returned"

\* C8: the txer step whose send fails pushes the write error, counts
\* nothing, writes nothing and leaves the loop; after a write error txer
\* takes no further block, sends nothing and the counter stays; and a run
\* that returns after a write error returns a non-nil error.
C8_SendFailureFatal ==
    /\ [](\A e \in Engines :
            (runPc[e] = "returned" /\ ErrWrite \in Pushed(e)) => result[e] # nil)
    /\ [][\A e \in Engines :
            /\ (Len(genBlocks'[e]) < Len(genBlocks[e]) /\ writeFails(e)) =>
                  /\ errors'[e] = Append(errors[e], ErrWrite)
                  /\ txCount'[e] = txCount[e]
                  /\ sent'[e] = sent[e]
                  /\ wire'[Peer(e)] = wire[Peer(e)]
                  /\ txPc'[e] = "signal"
            /\ ErrWrite \in Pushed(e) =>
                  /\ txPc[e] \in {"signal", "exit"}
                  /\ txPc'[e] \in {"signal", "exit"}
                  /\ txCount'[e] = txCount[e]
                  /\ sent'[e] = sent[e]
                  /\ wire'[Peer(e)] = wire[Peer(e)]
                  /\ Len(genBlocks'[e]) >= Len(genBlocks[e])]_vars

C8_Witness ==
    /\ runPc[1] = "returned"
    /\ result[1] = ErrWrite
    /\ test[1].TxRequests = 2
    /\ txCount[1] = 1
    /\ Len(sent[1]) = 1
    /\ closed[2] /\ ~closed[1]

\* the layout of one frame: the four marker bytes, the length as four
\* little-endian bytes, the payload
ExpectedFrame(data) ==
    <<202, 254, 240, 13>> \o <<Len(data) % 256, Len(data) \div 256, 0, 0>> \o data

RECURSIVE ExpectedFrames(_)
ExpectedFrames(payloads) ==
    IF payloads = <<>> THEN <<>>
    ELSE ExpectedFrame(Head(payloads)) \o ExpectedFrames(Tail(payloads))

\* C9: the payloads read back by rxPb are the payloads given to txPb, in
\* order, and the stream holds exactly the frames of the payloads not yet
\* read, each laid out as marker, little-endian length, payload: a read
\* consumes one frame and no more.
C9_FramingRoundTrip ==
    /\ Len(readBack) <= Len(written)
    /\ readBack = SubSeq(written, 1, Len(readBack))
    /\ wire[1] = ExpectedFrames(SubSeq(written, Len(readBack) + 1, Len(written)))

C9_Witness ==
    /\ Len(written) = 2
    /\ readBack = written
    /\ written[1] = <<202, 13>>
    /\ written[2] = <<>>
    /\ wire[1] = <<>>

\* C10: the rxer step that finds four bytes other than the marker at the
\* frame boundary pushes the bad-header error having consumed those four
\* bytes only, counts nothing, offers no block and leaves the loop; after a
\* bad-header error rxer reads nothing more, counts nothing and offers no
\* block to the verifier.
C10_BadHeaderFatal ==
    [][\A e \in Engines :
        /\ (rxerReady(e) /\ ~closed[e] /\ Len(wire[e]) >= 4
                /\ SubSeq(wire[e], 1, 4) # MagicHeader /\ rxPc'[e] # "loop") =>
              /\ errors'[e] = Append(errors[e], ErrBadHeader)
              /\ wire'[e] = SubSeq(wire[e], 5, Len(wire[e]))
              /\ rxCount'[e] = rxCount[e]
              /\ rxHeld'[e] = rxHeld[e]
              /\ latencies'[e] = latencies[e]
              /\ rxPc'[e] = "signal"
        /\ ErrBadHeader \in Pushed(e) =>
              /\ rxPc[e] \in {"signal", "exit"}
              /\ rxPc'[e] \in {"signal", "exit"}
              /\ rxCount'[e] = rxCount[e]
              /\ rxHeld'[e] = rxHeld[e]
              /\ Len(wire'[e]) >= Len(wire[e])
              /\ SubSeq(wire'[e], 1, Len(wire[e])) = wire[e]]_vars

C10_Witness ==
    /\ ErrBadHeader \in Pushed(1)
    /\ rxPc[1] = "exit"
    /\ rxCount[1] = 1
    /\ test[1].RxRequests = 2
    /\ Len(wire[1]) = 9
    /\ SubSeq(wire[1], 1, 4) = <<5, 0, 0, 0>>

\* C11: an engine whose receive total is zero never starts its verifier,
\* reads nothing from the connection (the bytes that arrive stay on it),
\* counts and hands over no block, and pushes no error but a send error; it
\* comes to rest only with run returned, and run returns only once txer has
\* completed, with nil exactly when every block of the transmit total was
\* sent and with the send error otherwise.
C11_TransmitOnly ==
    /\ [](\A e \in Engines :
            (test[e].RxRequests = 0 /\ runPc[e] # "idle") =>
                /\ verPc[e] = "off"
                /\ rxCount[e] = 0
                /\ rxSequence[e] = 0
                /\ rxPc[e] # "send"
                /\ Pushed(e) \subseteq {ErrWrite}
                /\ ~Runnable(e) => runPc[e] = "returned"
                /\ runPc[e] = "returned" =>
                      /\ txPc[e] = "exit"
                      /\ result[e] = IF txCount[e] = test[e].TxRequests
                                     THEN nil ELSE ErrWrite)
    /\ [][\A e \in Engines :
            test[e].RxRequests = 0 =>
                /\ Len(wire'[e]) >= Len(wire[e])
                /\ SubSeq(wire'[e], 1, Len(wire[e])) = wire[e]]_vars

C11_Witness ==
    /\ test[1].RxRequests = 0
    /\ test[1].TxRequests = 2
    /\ runPc[1] = "returned"
    /\ result[1] = nil
    /\ txCount[1] = 2
    /\ remoteFrames = 2
    /\ Len(wire[1]) > 0

\* the timestamps of the LatencyResponses an engine has sent, in order
EchoTimestamps(e) ==
    LET echoes == SelectSeq(sent[e], LAMBDA b : b.Type = BlockTypeLatencyResponse)
    IN  [i \in 1..Len(echoes) |-> echoes[i].Timestamp]

\* C12: while no more LatencyRequests were read than the queue can hold, the
\* timestamps echoed so far are the first of the timestamps the same
\* engine's rxer has read, in the order read, and the pending ones are the
\* last of them: every echo answers a request received before it, in arrival
\* order, once.  Between the two nothing is missing, but for the one
\* timestamp taken for a block whose send then failed.  The record of
\* requests read grows only by rxer reading a LatencyRequest.  A block
\* generated as LatencyRequest is sent as generated, and a LatencyResponse
\* is sent only in place of a generated Plain block.
C12_EchoFidelity ==
    /\ [](\A e \in Engines :
            /\ Len(probes[e]) <= LatenciesCap =>
                  LET n == Len(EchoTimestamps(e))
                      m == Len(latencies[e])
                      k == Len(probes[e])
                  IN  /\ n + m <= k
                      /\ EchoTimestamps(e) = SubSeq(probes[e], 1, n)
                      /\ latencies[e] = SubSeq(probes[e], k - m + 1, k)
                      /\ n + m >= k - (IF ErrWrite \in Pushed(e) THEN 1 ELSE 0)
            /\ \A i \in 1..Len(sent[e]) :
                  \E data \in Payloads(test[e].PayloadMinBytes, test[e].PayloadMaxBytes) :
                     LET g == generatorBlock(test[e], i - 1, data)
                     IN  /\ g.Type = BlockTypeLatencyRequest => sent[e][i] = g
                         /\ sent[e][i].Type = BlockTypeLatencyRequest => sent[e][i] = g
                         /\ sent[e][i].Type = BlockTypeLatencyResponse =>
                                g.Type = BlockTypePlain)
    /\ [][\A e \in Engines :
            probes'[e] # probes[e] =>
                /\ rxPc[e] = "loop" /\ rxPc'[e] = "send"
                /\ rxHeld'[e].Type = BlockTypeLatencyRequest
                /\ probes'[e] = Append(probes[e], rxHeld'[e].Timestamp)]_vars

C12_Witness ==
    /\ probes[1] = <<9, 10>>
    /\ latencies[1] = <<10>>
    /\ Len(sent[1]) = 2
    /\ sent[1][1].Type = BlockTypeLatencyRequest
    /\ sent[1][1].Timestamp = 1
    /\ sent[1][2].Type = BlockTypeLatencyResponse
    /\ sent[1][2].Timestamp = 9

\* C13: the pending-latency queue never holds more than its capacity; rxer
\* with an intact block to read is not held up by a full queue; and the
\* rxer step that reads a LatencyRequest while the queue is full leaves the
\* queue and the error queue as they were, counts the block and offers it
\* to the verifier.
C13_FullQueueDrops ==
    /\ [](\A e \in Engines :
            /\ Len(latencies[e]) <= LatenciesCap
            /\ (Len(latencies[e]) = LatenciesCap /\ rxPc[e] = "loop"
                    /\ rxerContinue(rxCount[e], test[e].RxRequests)
                    /\ rxerRxBlock(e).err = nil) => ENABLED rxerRead(e))
    /\ [][\A e \in Engines :
            (rxerReady(e) /\ rxerRxBlock(e).err = nil
                /\ rxerRxBlock(e).block.Type = BlockTypeLatencyRequest
                /\ Len(latencies[e]) = LatenciesCap
                /\ rxPc'[e] # rxPc[e]) =>
                  /\ latencies'[e] = latencies[e]
                  /\ errors'[e] = errors[e]
                  /\ rxCount'[e] = rxCount[e] + 1
                  /\ rxHeld'[e] = rxerRxBlock(e).block
                  /\ rxPc'[e] = "send"]_vars

C13_Witness ==
    /\ Len(latencies[1]) = LatenciesCap
    /\ Len(probes[1]) = LatenciesCap + 1
    /\ rxCount[1] = LatenciesCap + 1
    /\ rxSequence[1] = LatenciesCap + 1
    /\ errors[1] = <<>>
    /\ runPc[1] = "returned"
    /\ result[1] = nil

\* pacing is configured without jitter
PacedNoJitter(e) == test[e].TxPacing > 0 /\ test[e].TxMaxJitter = 0

\* C14 as stated: with pacing interval P and no jitter, the j-th send of an
\* engine comes at least (j - i) * P ms after its i-th send.
C14_SchedulingLaw ==
    \A e \in Engines :
        PacedNoJitter(e) =>
            \A i, j \in 1..Len(sendTimes[e]) :
                i < j => sendTimes[e][j] - sendTimes[e][i] >= (j - i) * test[e].TxPacing

\* C14 as amended: with pacing interval P and no jitter, the scheduled
\* instants of consecutive sends are at least P apart and no send comes
\* before its scheduled instant, so the j-th send comes at least (j - i) * P
\* ms after the i-th less the time by which the i-th send was late.  The
\* pacing step of a send whose scheduled instant lastSend + P is not ahead
\* of the clock goes to the send without sleeping and restarts the schedule
\* from the current instant; otherwise it sleeps until the scheduled instant
\* and keeps the schedule.
C14_ScheduledInstantsPaced ==
    /\ [](\A e \in Engines :
            PacedNoJitter(e) =>
                /\ Len(schedTimes[e]) = Len(sendTimes[e])
                /\ \A k \in 1..Len(sendTimes[e]) :
                      /\ sendTimes[e][k] >= schedTimes[e][k]
                      /\ k > 1 => schedTimes[e][k] >= schedTimes[e][k - 1] + test[e].TxPacing
                /\ \A i, j \in 1..Len(sendTimes[e]) :
                      i < j => sendTimes[e][j] - sendTimes[e][i] >=
                                  (j - i) * test[e].TxPacing
                                    - (sendTimes[e][i] - schedTimes[e][i])
                /\ txPc[e] = "tx" => ENABLED txerTx(e))
    /\ [][\A e \in Engines :
            (PacedNoJitter(e) /\ txPc[e] = "loop" /\ txPc'[e] \in {"sleep", "tx"}) =>
                IF lastSend[e] + test[e].TxPacing > now
                THEN /\ txPc'[e] = "sleep"
                     /\ wakeAt'[e] = lastSend[e] + test[e].TxPacing
                     /\ lastSend'[e] = lastSend[e] + test[e].TxPacing
                ELSE /\ txPc'[e] = "tx"
                     /\ lastSend'[e] = now]_vars

C14_Witness ==
    /\ test[1].TxPacing = 2
    /\ test[1].TxMaxJitter = 0
    /\ schedTimes[1] = <<0, 3, 5>>
    /\ sendTimes[1] = <<0, 3, 5>>

\* C15: the length rxLength decodes from the four bytes txLength wrote for a
\* length L, 0 <= L < 2^32, is L, and the reader goes on to read L bytes.
C15_LengthUnsigned ==
    lengthOut # <<>> =>
        /\ lengthOut[1].err = nil
        /\ lengthOut[1].length >= 0
        /\ lengthOut[1].length \div 65536 = lengthIn.hi
        /\ lengthOut[1].length % 65536 = lengthIn.lo

\* a block handed to the verifier has failed, or is about to fail, the
\* sequence check or the hash check
DeliveredBlockFails(e) ==
    \/ IntegrityErrors \cap Pushed(e) # {}
    \/ verPc[e] = "check" /\ verifierVerdict(verBlock[e], rxSequence[e]) # nil

\* C16: a run that has returned although a block handed to its verifier
\* fails the sequence check or the hash check has returned a non-nil error.
C16_IntegrityFailureReturned ==
    \A e \in Engines :
        (runPc[e] = "returned" /\ DeliveredBlockFails(e)) => result[e] # nil

\* C17: an engine's end of the connection is closed only by the step of its
\* verifier that follows the push of an integrity error, a step that leaves
\* txer and rxer where they are and is taken once: the verifier has then
\* returned.  An end is closed only with an integrity error recorded, so no
\* send error or read error of txer or rxer alone has closed it.
C17_OnlyVerifierCloses ==
    /\ [](\A e \in Engines :
            (runPc[e] # "idle" /\ closed[e]) =>
                /\ verPc[e] = "failed"
                /\ IntegrityErrors \cap Pushed(e) # {})
    /\ [][\A e \in Engines :
            (runPc[e] # "idle" /\ closed'[e] # closed[e]) =>
                /\ ~closed[e] /\ closed'[e]
                /\ verPc[e] = "closing" /\ verPc'[e] = "failed"
                /\ IntegrityErrors \cap Pushed(e) # {}
                /\ txPc'[e] = txPc[e] /\ rxPc'[e] = rxPc[e]
                /\ errors'[e] = errors[e]]_vars

C17_Witness ==
    /\ closed[1]
    /\ verPc[1] = "failed"
    /\ ErrSequence \in Pushed(1)
    /\ ErrWrite \in Pushed(1)
    /\ ErrClosed \in Pushed(1)
    /\ ~closed[2]
    /\ runPc[1] = "returned"

\* the frames of a sequence of blocks, one after the other
RECURSIVE Frames(_)
Frames(blocks) ==
    IF blocks = <<>> THEN <<>> ELSE BlockTx(Head(blocks)) \o Frames(Tail(blocks))

\* whether s ends with t
IsSuffix(t, s) ==
    /\ Len(t) <= Len(s)
    /\ SubSeq(s, Len(s) - Len(t) + 1, Len(s)) = t

\* block b is what txer may send for the generated block g: g itself, or a
\* Plain g turned into a LatencyResponse
SentFor(b, g) ==
    /\ b.Sequence = g.Sequence
    /\ b.Data = g.Data
    /\ b.Hash = g.Hash
    /\ \/ b = g
       \/ g.Type = BlockTypePlain /\ b.Type = BlockTypeLatencyResponse

\* C18: the i-th block txer sent (from 0) is the generator's block number i,
\* with sequence number i, payload and hash as generated and only type and
\* timestamp changed by the conversion of a Plain block; the bytes on the
\* wire to the peer are the frames of the sent blocks in that order (those
\* the peer has not read yet).
C18_SentInGeneratorOrder ==
    \A e \in Engines :
        runPc[e] # "idle" =>
            /\ \A i \in 1..Len(sent[e]) :
                  /\ sent[e][i].Sequence = i - 1
                  /\ \E data \in Payloads(test[e].PayloadMinBytes,
                                          test[e].PayloadMaxBytes) :
                        SentFor(sent[e][i], generatorBlock(test[e], i - 1, data))
            /\ IsSuffix(wire[Peer(e)], Frames(sent[e]))

C18_Witness ==
    /\ Len(sent[1]) = 2
    /\ sent[1][1].Type = BlockTypeLatencyRequest
    /\ sent[1][2].Type = BlockTypeLatencyResponse
    /\ sent[1][2].Sequence = 1
    /\ sent[1][2].Data # <<>>
    /\ wire[2] = Frames(sent[1])

\* C19: with transmit total T and receive total R, txCount <= T and
\* rxSequence <= rxCount <= R; txer has written at most T frames and rxer
\* has read at most R; txCount is the number of blocks sent and rxCount the
\* number of blocks read.
C19_CountersBounded ==
    \A e \in Engines :
        /\ txCount[e] <= test[e].TxRequests
        /\ rxSequence[e] <= rxCount[e]
        /\ rxCount[e] <= test[e].RxRequests
        /\ Len(sent[e]) <= test[e].TxRequests
        /\ Len(received[e]) <= test[e].RxRequests
        /\ txCount[e] = Len(sent[e])
        /\ rxCount[e] = Len(received[e])

C19_Witness ==
    /\ test[1].TxRequests = 2 /\ txCount[1] = 2
    /\ test[1].RxRequests = 2 /\ rxCount[1] = 2
    /\ rxSequence[1] = 1
    /\ ErrSequence \in Pushed(1)
    /\ runPc[1] = "returned"

\* C20: txCount changes only in a step of txer that sends a block, rxCount
\* and lastRx only in the step of rxer that reads a block, rxSequence only
\* in the step of verifier that checks a block; the timeout step of verifier
\* changes none of the four.
C20_SingleWriter ==
    [][\A e \in Engines :
          /\ txCount'[e] # txCount[e] => txerStep(e) \/ txerTx(e)
          /\ rxCount'[e] # rxCount[e] => rxerRead(e)
          /\ lastRx'[e] # lastRx[e] => rxerRead(e)
          /\ rxSequence'[e] # rxSequence[e] => verifierCheck(e)
          /\ verifierTimeout(e) =>
                /\ txCount'[e] = txCount[e]
                /\ rxCount'[e] = rxCount[e]
                /\ lastRx'[e] = lastRx[e]
                /\ rxSequence'[e] = rxSequence[e]]_vars

C20_Witness ==
    /\ verPc[1] = "timedout"
    /\ txCount[1] = 1
    /\ rxCount[1] = 2
    /\ rxSequence[1] = 1
    /\ lastRx[1] = now

=============================================================================
